---- MODULE Spec2Model ----
(***************************************************************************)
(* Model of glib_thread_stubs.c: single-threaded stand-ins for GLib's      *)
(* threading primitives.  The only program state is private_list, the      *)
(* singly linked list behind g_private_get / g_private_set /               *)
(* g_private_replace.  Every other function ignores its arguments and      *)
(* returns a constant.                                                     *)
(*                                                                         *)
(* One action models one C function.  The caller's view of a call is kept  *)
(* in fn (the function called last), args (its arguments), ret (its return *)
(* value, <<>> for a void function) and alloc (what malloc returned in     *)
(* it).  held, max_unused_requested and everSet are history variables:     *)
(* the program stores none of them, they record what the caller asked for: *)
(* held is the set of locks taken by a *_lock call and not released by an  *)
(* *_unlock call since, max_unused_requested the last argument given to    *)
(* g_thread_pool_set_max_unused_threads, everSet the keys g_private_set or *)
(* g_private_replace was ever called on.                                   *)
(***************************************************************************)
EXTENDS Integers, Sequences, FiniteSets, TLC

\* Bounds of the model.
NumKeys == 3
MaxValue == 2
MaxLock == 1
MaxThreads == 1

\* Program constants.
NULL == 0
gTRUE == 1
gFALSE == 0

\* Opaque addresses handed in by the caller.  NULL is a legal key and a
\* legal value: the code only compares keys and never dereferences either.
Keys == 0..(NumKeys - 1)
Values == 0..MaxValue
Locks == 1..MaxLock
EndTimes == {-1, 0, 1}
Names == {NULL, 1}
Funcs == {1}
Datas == {NULL, 1}
Threads == {NULL, 1}
StackSizes == {0, 1}
ErrorPtrs == {NULL, 1}
ThreadCounts == (-1)..MaxThreads

VARIABLES private_list, fn, args, ret, alloc, error_slot,
          held, max_unused_requested, everSet

vars == <<private_list, fn, args, ret, alloc, error_slot,
          held, max_unused_requested, everSet>>

\* struct PrivateEntry, without its next pointer: the list is the sequence
\* of entries in traversal order, private_list[1] being the head.
PrivateEntry(key, value) == [key |-> key, value |-> value]

\* The while loop of g_private_get and g_private_set: the position of the
\* first entry whose key is `key`, 0 when the scan falls off the end.
RECURSIVE ScanFrom(_, _, _)
ScanFrom(list, key, i) ==
    IF i > Len(list) THEN 0
    ELSE IF list[i].key = key THEN i
    ELSE ScanFrom(list, key, i + 1)

Scan(list, key) == ScanFrom(list, key, 1)

\* Faulty variant of g_private_get_ret: the scan does not compare keys and stops at
\* the first entry.
g_private_get_ret_anykey(list, key) ==
    IF list # <<>> THEN list[1].value ELSE NULL

\* What g_private_get returns on `list`.
g_private_get_ret(list, key) ==
    LET i == Scan(list, key)
    IN  IF i # 0 THEN list[i].value ELSE NULL

\* One way a call of g_private_set can end: what malloc returned in it
\* ("not_called" when the key was found, else "entry" or "NULL") and the
\* list it left behind.
Outcome(a, list) == [alloc |-> a, list |-> list]

\* Faulty variant of g_private_set_outcomes: a found entry is left as it is.
g_private_set_outcomes_nowrite(list, key, value) ==
    IF Scan(list, key) # 0
    THEN {Outcome("not_called", list)}
    ELSE {Outcome("entry", <<PrivateEntry(key, value)>> \o list),
          Outcome("NULL", list)}

\* Faulty variant of g_private_set_outcomes: no scan, every call allocates.
g_private_set_outcomes_noscan(list, key, value) ==
    {Outcome("entry", <<PrivateEntry(key, value)>> \o list),
     Outcome("NULL", list)}

\* Faulty variant of g_private_set_outcomes: private_list = entry is not guarded by
\* if (entry), so a failed malloc empties the list.
g_private_set_outcomes_unguarded(list, key, value) ==
    LET i == Scan(list, key)
    IN  IF i # 0
        THEN {Outcome("not_called", [list EXCEPT ![i].value = value])}
        ELSE {Outcome("entry", <<PrivateEntry(key, value)>> \o list),
              Outcome("NULL", <<>>)}

\* Faulty variant of g_private_set_outcomes: the new entry goes to the tail.
g_private_set_outcomes_append(list, key, value) ==
    LET i == Scan(list, key)
    IN  IF i # 0
        THEN {Outcome("not_called", [list EXCEPT ![i].value = value])}
        ELSE {Outcome("entry", list \o <<PrivateEntry(key, value)>>),
              Outcome("NULL", list)}

\* g_private_set on `list`: the scan overwrites the value of the first
\* entry with the key and returns; when there is none malloc is called, and
\* the new entry is linked in at the head unless malloc returned NULL.
g_private_set_outcomes(list, key, value) ==
    LET i == Scan(list, key)
    IN  IF i # 0
        THEN {Outcome("not_called", [list EXCEPT ![i].value = value])}
        ELSE {Outcome("entry", <<PrivateEntry(key, value)>> \o list),
              Outcome("NULL", list)}

Init ==
    /\ private_list = <<>>
    /\ fn = "none"
    /\ args = <<>>
    /\ ret = <<>>
    /\ alloc = "not_called"
    /\ error_slot = NULL
    /\ held = {}
    /\ max_unused_requested = 0
    /\ everSet = {}

\* A call that returns `r` and touches nothing the program owns.
Returns(name, a, r) ==
    /\ fn' = name
    /\ args' = a
    /\ ret' = r
    /\ alloc' = "not_called"

g_private_get(key) ==
    /\ Returns("g_private_get", <<key>>, <<g_private_get_ret(private_list, key)>>)
    /\ UNCHANGED <<private_list, error_slot, held, max_unused_requested, everSet>>

\* A call of g_private_set or g_private_replace that ends as `outcome`.
StoreCall(name, key, value, outcome) ==
    /\ alloc' = outcome.alloc
    /\ private_list' = outcome.list
    /\ fn' = name
    /\ args' = <<key, value>>
    /\ ret' = <<>>
    /\ everSet' = everSet \cup {key}
    /\ UNCHANGED <<error_slot, held, max_unused_requested>>

g_private_set(key, value) ==
    \E outcome \in g_private_set_outcomes(private_list, key, value) :
        StoreCall("g_private_set", key, value, outcome)

\* Faulty variant of g_private_replace: it links a new entry in without looking for
\* an old one.
g_private_replace_noscan(key, value) ==
    \E outcome \in g_private_set_outcomes_noscan(private_list, key, value) :
        StoreCall("g_private_replace", key, value, outcome)

\* g_private_replace only calls g_private_set.
g_private_replace(key, value) ==
    \E outcome \in g_private_set_outcomes(private_list, key, value) :
        StoreCall("g_private_replace", key, value, outcome)

\* A stub: returns `r`, reads and writes nothing.
Stub(name, a, r) ==
    /\ Returns(name, a, r)
    /\ UNCHANGED <<private_list, error_slot, everSet>>

\* Mutex stubs.
g_mutex_lock(mutex) ==
    /\ Stub("g_mutex_lock", <<mutex>>, <<>>)
    /\ held' = held \cup {mutex}
    /\ UNCHANGED max_unused_requested

g_mutex_unlock(mutex) ==
    /\ Stub("g_mutex_unlock", <<mutex>>, <<>>)
    /\ held' = held \ {mutex}
    /\ UNCHANGED max_unused_requested

\* Faulty variant of g_mutex_trylock: a real trylock, which fails on a taken mutex.
g_mutex_trylock_real(mutex) ==
    /\ Stub("g_mutex_trylock", <<mutex>>,
            IF mutex \in held THEN <<gFALSE>> ELSE <<gTRUE>>)
    /\ UNCHANGED <<held, max_unused_requested>>

g_mutex_trylock(mutex) ==
    /\ Stub("g_mutex_trylock", <<mutex>>, <<gTRUE>>)
    /\ UNCHANGED <<held, max_unused_requested>>

g_mutex_init(mutex) ==
    /\ Stub("g_mutex_init", <<mutex>>, <<>>)
    /\ UNCHANGED <<held, max_unused_requested>>

g_mutex_clear(mutex) ==
    /\ Stub("g_mutex_clear", <<mutex>>, <<>>)
    /\ UNCHANGED <<held, max_unused_requested>>

\* RWLock stubs.
g_rw_lock_init(rw_lock) ==
    /\ Stub("g_rw_lock_init", <<rw_lock>>, <<>>)
    /\ UNCHANGED <<held, max_unused_requested>>

g_rw_lock_clear(rw_lock) ==
    /\ Stub("g_rw_lock_clear", <<rw_lock>>, <<>>)
    /\ UNCHANGED <<held, max_unused_requested>>

g_rw_lock_writer_lock(rw_lock) ==
    /\ Stub("g_rw_lock_writer_lock", <<rw_lock>>, <<>>)
    /\ held' = held \cup {rw_lock}
    /\ UNCHANGED max_unused_requested

g_rw_lock_writer_trylock(rw_lock) ==
    /\ Stub("g_rw_lock_writer_trylock", <<rw_lock>>, <<gTRUE>>)
    /\ UNCHANGED <<held, max_unused_requested>>

g_rw_lock_writer_unlock(rw_lock) ==
    /\ Stub("g_rw_lock_writer_unlock", <<rw_lock>>, <<>>)
    /\ held' = held \ {rw_lock}
    /\ UNCHANGED max_unused_requested

g_rw_lock_reader_lock(rw_lock) ==
    /\ Stub("g_rw_lock_reader_lock", <<rw_lock>>, <<>>)
    /\ held' = held \cup {rw_lock}
    /\ UNCHANGED max_unused_requested

g_rw_lock_reader_trylock(rw_lock) ==
    /\ Stub("g_rw_lock_reader_trylock", <<rw_lock>>, <<gTRUE>>)
    /\ UNCHANGED <<held, max_unused_requested>>

g_rw_lock_reader_unlock(rw_lock) ==
    /\ Stub("g_rw_lock_reader_unlock", <<rw_lock>>, <<>>)
    /\ held' = held \ {rw_lock}
    /\ UNCHANGED max_unused_requested

\* RecMutex stubs.
g_rec_mutex_init(rec_mutex) ==
    /\ Stub("g_rec_mutex_init", <<rec_mutex>>, <<>>)
    /\ UNCHANGED <<held, max_unused_requested>>

g_rec_mutex_clear(rec_mutex) ==
    /\ Stub("g_rec_mutex_clear", <<rec_mutex>>, <<>>)
    /\ UNCHANGED <<held, max_unused_requested>>

g_rec_mutex_lock(rec_mutex) ==
    /\ Stub("g_rec_mutex_lock", <<rec_mutex>>, <<>>)
    /\ held' = held \cup {rec_mutex}
    /\ UNCHANGED max_unused_requested

g_rec_mutex_trylock(rec_mutex) ==
    /\ Stub("g_rec_mutex_trylock", <<rec_mutex>>, <<gTRUE>>)
    /\ UNCHANGED <<held, max_unused_requested>>

g_rec_mutex_unlock(rec_mutex) ==
    /\ Stub("g_rec_mutex_unlock", <<rec_mutex>>, <<>>)
    /\ held' = held \ {rec_mutex}
    /\ UNCHANGED max_unused_requested

\* Cond stubs.
g_cond_init(cond) ==
    /\ Stub("g_cond_init", <<cond>>, <<>>)
    /\ UNCHANGED <<held, max_unused_requested>>

g_cond_clear(cond) ==
    /\ Stub("g_cond_clear", <<cond>>, <<>>)
    /\ UNCHANGED <<held, max_unused_requested>>

g_cond_wait(cond, mutex) ==
    /\ Stub("g_cond_wait", <<cond, mutex>>, <<>>)
    /\ UNCHANGED <<held, max_unused_requested>>

g_cond_wait_until(cond, mutex, end_time) ==
    /\ Stub("g_cond_wait_until", <<cond, mutex, end_time>>, <<gTRUE>>)
    /\ UNCHANGED <<held, max_unused_requested>>

g_cond_signal(cond) ==
    /\ Stub("g_cond_signal", <<cond>>, <<>>)
    /\ UNCHANGED <<held, max_unused_requested>>

g_cond_broadcast(cond) ==
    /\ Stub("g_cond_broadcast", <<cond>>, <<>>)
    /\ UNCHANGED <<held, max_unused_requested>>

\* System thread stubs.
g_system_thread_set_name(name) ==
    /\ Stub("g_system_thread_set_name", <<name>>, <<>>)
    /\ UNCHANGED <<held, max_unused_requested>>

\* `error` is NULL or the address of the caller's GError* slot, whose
\* content is error_slot.
\* Faulty variant of g_system_thread_new: the failure is reported through `error`.
g_system_thread_new_seterror(proxy, stack_size, name, func, data, error) ==
    /\ Returns("g_system_thread_new",
               <<proxy, stack_size, name, func, data, error>>, <<NULL>>)
    /\ error_slot' = IF error # NULL THEN 1 ELSE error_slot
    /\ UNCHANGED <<private_list, everSet, held, max_unused_requested>>

g_system_thread_new(proxy, stack_size, name, func, data, error) ==
    /\ Returns("g_system_thread_new",
               <<proxy, stack_size, name, func, data, error>>, <<NULL>>)
    /\ UNCHANGED <<private_list, error_slot, everSet, held, max_unused_requested>>

g_system_thread_free(thread) ==
    /\ Stub("g_system_thread_free", <<thread>>, <<>>)
    /\ UNCHANGED <<held, max_unused_requested>>

g_system_thread_wait(thread) ==
    /\ Stub("g_system_thread_wait", <<thread>>, <<>>)
    /\ UNCHANGED <<held, max_unused_requested>>

\* Faulty variant of g_system_thread_exit: the exiting thread's entries are dropped.
g_system_thread_exit_cleanup ==
    /\ Returns("g_system_thread_exit", <<>>, <<>>)
    /\ private_list' = <<>>
    /\ UNCHANGED <<error_slot, everSet, held, max_unused_requested>>

g_system_thread_exit ==
    /\ Stub("g_system_thread_exit", <<>>, <<>>)
    /\ UNCHANGED <<held, max_unused_requested>>

\* Thread pool stubs.
g_thread_pool_set_max_unused_threads(max_threads) ==
    /\ Stub("g_thread_pool_set_max_unused_threads", <<max_threads>>, <<>>)
    /\ max_unused_requested' = max_threads
    /\ UNCHANGED held

\* Faulty variant of g_thread_pool_get_max_unused_threads: the setter's argument is
\* kept and reported.
g_thread_pool_get_max_unused_threads_stored ==
    /\ Stub("g_thread_pool_get_max_unused_threads", <<>>, <<max_unused_requested>>)
    /\ UNCHANGED <<held, max_unused_requested>>

g_thread_pool_get_max_unused_threads ==
    /\ Stub("g_thread_pool_get_max_unused_threads", <<>>, <<0>>)
    /\ UNCHANGED <<held, max_unused_requested>>

g_thread_pool_get_num_unused_threads ==
    /\ Stub("g_thread_pool_get_num_unused_threads", <<>>, <<0>>)
    /\ UNCHANGED <<held, max_unused_requested>>

g_thread_pool_stop_unused_threads ==
    /\ Stub("g_thread_pool_stop_unused_threads", <<>>, <<>>)
    /\ UNCHANGED <<held, max_unused_requested>>

NextStore ==
    \/ \E key \in Keys : g_private_get(key)
    \/ \E key \in Keys, value \in Values : g_private_set(key, value)
    \/ \E key \in Keys, value \in Values : g_private_replace(key, value)

NextLocks ==
    \/ \E mutex \in Locks : g_mutex_lock(mutex)
    \/ \E mutex \in Locks : g_mutex_unlock(mutex)
    \/ \E mutex \in Locks : g_mutex_trylock(mutex)
    \/ \E mutex \in Locks : g_mutex_init(mutex)
    \/ \E mutex \in Locks : g_mutex_clear(mutex)
    \/ \E rw_lock \in Locks : g_rw_lock_init(rw_lock)
    \/ \E rw_lock \in Locks : g_rw_lock_clear(rw_lock)
    \/ \E rw_lock \in Locks : g_rw_lock_writer_lock(rw_lock)
    \/ \E rw_lock \in Locks : g_rw_lock_writer_trylock(rw_lock)
    \/ \E rw_lock \in Locks : g_rw_lock_writer_unlock(rw_lock)
    \/ \E rw_lock \in Locks : g_rw_lock_reader_lock(rw_lock)
    \/ \E rw_lock \in Locks : g_rw_lock_reader_trylock(rw_lock)
    \/ \E rw_lock \in Locks : g_rw_lock_reader_unlock(rw_lock)
    \/ \E rec_mutex \in Locks : g_rec_mutex_init(rec_mutex)
    \/ \E rec_mutex \in Locks : g_rec_mutex_clear(rec_mutex)
    \/ \E rec_mutex \in Locks : g_rec_mutex_lock(rec_mutex)
    \/ \E rec_mutex \in Locks : g_rec_mutex_trylock(rec_mutex)
    \/ \E rec_mutex \in Locks : g_rec_mutex_unlock(rec_mutex)
    \/ \E cond \in Locks : g_cond_init(cond)
    \/ \E cond \in Locks : g_cond_clear(cond)
    \/ \E cond \in Locks, mutex \in Locks : g_cond_wait(cond, mutex)
    \/ \E cond \in Locks, mutex \in Locks, end_time \in EndTimes :
          g_cond_wait_until(cond, mutex, end_time)
    \/ \E cond \in Locks : g_cond_signal(cond)
    \/ \E cond \in Locks : g_cond_broadcast(cond)

NextThreads ==
    \/ \E name \in Names : g_system_thread_set_name(name)
    \/ \E proxy \in Funcs, stack_size \in StackSizes, name \in Names,
          func \in Funcs, data \in Datas, error \in ErrorPtrs :
          g_system_thread_new(proxy, stack_size, name, func, data, error)
    \/ \E thread \in Threads : g_system_thread_free(thread)
    \/ \E thread \in Threads : g_system_thread_wait(thread)
    \/ g_system_thread_exit
    \/ \E max_threads \in ThreadCounts : g_thread_pool_set_max_unused_threads(max_threads)
    \/ g_thread_pool_get_max_unused_threads
    \/ g_thread_pool_get_num_unused_threads
    \/ g_thread_pool_stop_unused_threads

NextStubs == NextLocks \/ NextThreads

Next == NextStore \/ NextStubs

\* The whole translation unit.
Spec == Init /\ [][Next]_vars

\* The thread-local store alone.
SpecStore == Init /\ [][NextStore]_vars

\* The stateless stubs alone.
SpecStubs == Init /\ [][NextStubs]_vars

(***************************************************************************)
(* Properties of the thread-local store.                                   *)
(***************************************************************************)

\* The entry points that run the body of g_private_set.
SetFns == {"g_private_set", "g_private_replace"}

\* Whether `list` holds an entry for `key`.
Present(list, key) == Scan(list, key) # 0

\* The number of entries of `list` whose key is `key`.
Count(list, key) == Cardinality({i \in 1..Len(list) : list[i].key = key})

UniqueKeys(list) ==
    \A i, j \in 1..Len(list) : list[i].key = list[j].key => i = j

\* C1 as stated: whenever g_private_set(k, v) is followed immediately by
\* g_private_get(k), the get returns v.
C1_SetThenGetReturnsValue ==
    [][(fn = "g_private_set" /\ fn' = "g_private_get" /\ args'[1] = args[1])
          => ret' = <<args[2]>>]_vars

\* C1 amended: g_private_set(k, v) followed immediately by g_private_get(k)
\* returns v when k was already in the store or the allocation of the new
\* entry succeeded, and NULL when k was new and the allocation failed.
C1_SetThenGet ==
    [][(fn = "g_private_set" /\ fn' = "g_private_get" /\ args'[1] = args[1])
          => ret' = IF alloc = "NULL" THEN <<NULL>> ELSE <<args[2]>>]_vars

\* A get that returns the non-null value a key of a store of several
\* entries was set to.
C1_Witness ==
    /\ fn = "g_private_get"
    /\ args[1] \in everSet
    /\ Len(private_list) >= 2
    /\ ret # <<NULL>>
    /\ \E i \in 2..Len(private_list) : private_list[i] = PrivateEntry(args[1], ret[1])

\* C2: g_private_get of a key that g_private_set and g_private_replace were
\* never called on returns NULL, whatever was done to other keys.
C2_NeverSetIsAbsent ==
    /\ \A key \in Keys \ everSet : g_private_get_ret(private_list, key) = NULL
    /\ (fn = "g_private_get" /\ args[1] \notin everSet) => ret = <<NULL>>

\* A get of a never-set key that returned NULL while two other keys hold
\* non-null values.
C2_Witness ==
    /\ fn = "g_private_get"
    /\ args[1] \notin everSet
    /\ ret = <<NULL>>
    /\ Len(private_list) >= 2
    /\ \A i \in 1..Len(private_list) : private_list[i].value # NULL

\* C3 as stated: the store never holds two entries for one key, and after
\* set(k, v1); set(k, v2) a get of k returns v2 and k has exactly one entry.
C3_UniqueAndOverwritten ==
    [][/\ UniqueKeys(private_list')
       /\ (fn \in SetFns /\ fn' \in SetFns /\ args'[1] = args[1])
             => /\ g_private_get_ret(private_list', args'[1]) = args'[2]
                /\ Count(private_list', args'[1]) = 1]_vars

\* C3 amended: the store never holds two entries for one key; after
\* set(k, v1); set(k, v2) a get of k returns v2 and k has exactly one entry,
\* unless k was new and the allocation failed in both calls, in which case k
\* has no entry and a get of k returns NULL.
C3_UniqueKeys ==
    [][/\ UniqueKeys(private_list')
       /\ (fn \in SetFns /\ fn' \in SetFns /\ args'[1] = args[1])
             => IF alloc = "NULL" /\ alloc' = "NULL"
                THEN /\ g_private_get_ret(private_list', args'[1]) = NULL
                     /\ Count(private_list', args'[1]) = 0
                ELSE /\ g_private_get_ret(private_list', args'[1]) = args'[2]
                     /\ Count(private_list', args'[1]) = 1]_vars

\* A set that overwrote, with a non-null value, the entry of a key that is
\* not at the head of a store of several entries.
C3_Witness ==
    /\ fn \in SetFns
    /\ alloc = "not_called"
    /\ args[2] # NULL
    /\ Len(private_list) >= 2
    /\ Scan(private_list, args[1]) > 1
    /\ Count(private_list, args[1]) = 1
    /\ g_private_get_ret(private_list, args[1]) = args[2]

\* C4: g_private_replace(k, v) and g_private_set(k, v) are the same call
\* but for the name: from one state, whatever store, malloc outcome and
\* return one of them can end with, the other can end with too, and so
\* every later get returns the same.
C4_ReplaceIsSet ==
    [][\A key \in Keys, value \in Values :
          \A outcome \in {Outcome(alloc', private_list')} :
             /\ (fn' = "g_private_replace" /\ args' = <<key, value>>)
                   => /\ ret' = <<>>
                      /\ ENABLED (/\ g_private_set(key, value)
                                  /\ ret' = <<>>
                                  /\ Outcome(alloc', private_list') = outcome)
             /\ (fn' = "g_private_set" /\ args' = <<key, value>>)
                   => /\ ret' = <<>>
                      /\ ENABLED (/\ g_private_replace(key, value)
                                  /\ ret' = <<>>
                                  /\ Outcome(alloc', private_list') = outcome)]_vars

\* A replace that overwrote the value of a key of a store of several
\* entries.
C4_Witness ==
    /\ fn = "g_private_replace"
    /\ alloc = "not_called"
    /\ Len(private_list) >= 2
    /\ args[2] # NULL
    /\ g_private_get_ret(private_list, args[1]) = args[2]

\* C5: when the key is new and malloc fails, g_private_set changes nothing,
\* reports nothing, and a get of the key still returns NULL; when the key is
\* present malloc is not called and the value is overwritten.
C5_AllocationFailureIsNoOp ==
    [][fn' \in SetFns
          => /\ alloc' = "NULL"
                  => /\ ~Present(private_list, args'[1])
                     /\ private_list' = private_list
                     /\ ret' = <<>>
                     /\ error_slot' = error_slot
                     /\ g_private_get_ret(private_list', args'[1]) = NULL
             /\ Present(private_list, args'[1])
                  => /\ alloc' = "not_called"
                     /\ g_private_get_ret(private_list', args'[1]) = args'[2]]_vars

\* A set of a new key to a non-null value whose allocation failed, in a
\* store that holds other entries.
C5_Witness ==
    /\ fn = "g_private_set"
    /\ alloc = "NULL"
    /\ args[2] # NULL
    /\ private_list # <<>>
    /\ ~Present(private_list, args[1])

\* C9: no step shortens the list or moves or drops a key; a set of a new key
\* whose allocation succeeds puts the entry at the head, in front of the old
\* list; a set of a present key changes that entry's value and nothing else.
C9_PrependAndNeverRemove ==
    [][/\ Len(private_list') >= Len(private_list)
       /\ \A i \in 1..Len(private_list) :
             private_list'[i + Len(private_list') - Len(private_list)].key
               = private_list[i].key
       /\ (fn' \in SetFns /\ alloc' = "entry")
             => private_list' = <<PrivateEntry(args'[1], args'[2])>> \o private_list
       /\ (fn' \in SetFns /\ Present(private_list, args'[1]))
             => /\ Len(private_list') = Len(private_list)
                /\ \A i \in 1..Len(private_list) :
                      private_list'[i] =
                        IF i = Scan(private_list, args'[1])
                        THEN PrivateEntry(args'[1], args'[2])
                        ELSE private_list[i]]_vars

\* A set that put a new entry in front of a store of at least two entries.
C9_Witness ==
    /\ fn \in SetFns
    /\ alloc = "entry"
    /\ Len(private_list) >= 3
    /\ private_list[1] = PrivateEntry(args[1], args[2])

\* C10: g_private_set and g_private_replace of k leave the binding of every
\* other key as it was, and every other function leaves the list as it was.
C10_Frame ==
    [][/\ fn' \in SetFns
             => \A key \in Keys \ {args'[1]} :
                   /\ Present(private_list', key) = Present(private_list, key)
                   /\ g_private_get_ret(private_list', key)
                        = g_private_get_ret(private_list, key)
       /\ fn' \notin SetFns => private_list' = private_list]_vars

\* A stub called while the store holds several entries.
C10_Witness ==
    /\ fn \notin SetFns \cup {"g_private_get", "none"}
    /\ Len(private_list) >= 2

(***************************************************************************)
(* Properties of the stubs.                                                *)
(***************************************************************************)

\* C6: g_system_thread_new returns NULL and leaves the caller's GError*
\* slot as it was.
C6_ThreadNewReturnsNull ==
    [][fn' = "g_system_thread_new"
          => /\ ret' = <<NULL>>
             /\ error_slot' = error_slot]_vars

\* A g_system_thread_new given a start function and the address of an error
\* slot, after which the handle and the slot are both NULL.
C6_Witness ==
    /\ fn = "g_system_thread_new"
    /\ args[1] # NULL
    /\ args[6] # NULL
    /\ ret = <<NULL>>
    /\ error_slot = NULL

TryFns ==
    {"g_mutex_trylock", "g_rec_mutex_trylock", "g_rw_lock_reader_trylock",
     "g_rw_lock_writer_trylock", "g_cond_wait_until"}

\* C7: every trylock and g_cond_wait_until returns TRUE, and every lock,
\* unlock, trylock and wait call can be made (returns) in every state.
C7_TrylockSucceeds ==
    /\ fn \in TryFns => ret = <<gTRUE>>
    /\ \A l \in Locks :
          /\ ENABLED g_mutex_lock(l)
          /\ ENABLED g_mutex_unlock(l)
          /\ ENABLED g_mutex_trylock(l)
          /\ ENABLED g_rec_mutex_lock(l)
          /\ ENABLED g_rec_mutex_unlock(l)
          /\ ENABLED g_rec_mutex_trylock(l)
          /\ ENABLED g_rw_lock_reader_lock(l)
          /\ ENABLED g_rw_lock_reader_unlock(l)
          /\ ENABLED g_rw_lock_reader_trylock(l)
          /\ ENABLED g_rw_lock_writer_lock(l)
          /\ ENABLED g_rw_lock_writer_unlock(l)
          /\ ENABLED g_rw_lock_writer_trylock(l)
          /\ ENABLED g_cond_wait(l, l)
          /\ \A end_time \in EndTimes : ENABLED g_cond_wait_until(l, l, end_time)

\* A g_mutex_trylock that returned TRUE on a lock taken and not released.
C7_Witness ==
    /\ fn = "g_mutex_trylock"
    /\ args[1] \in held
    /\ ret = <<gTRUE>>

PoolGetFns ==
    {"g_thread_pool_get_max_unused_threads", "g_thread_pool_get_num_unused_threads"}

\* C8: the two thread-pool getters return 0, whatever the setter was given.
C8_PoolGettersReturnZero ==
    fn \in PoolGetFns => ret = <<0>>

\* g_thread_pool_get_max_unused_threads returning 0 after the setter was
\* given a positive number.
C8_Witness ==
    /\ fn = "g_thread_pool_get_max_unused_threads"
    /\ max_unused_requested > 0
    /\ ret = <<0>>

====
